---------------------------- MODULE Spec2Model ----------------------------
(***************************************************************************)
(* Session lifecycle of the WHEP player (src/src/components/WHEPPlayer.tsx)*)
(* and the WHIP pusher (src/unnamed/part_000).  Both components run the    *)
(* same orchestration around an external client library:                   *)
(*                                                                         *)
(*   startPlaying / startStream   create a peer connection, await          *)
(*                                view()/publish(), arm the stats timer    *)
(*   stopPlaying  / stopStream    cancel the timer, close the connection,  *)
(*                                await the client's stop()                *)
(*   pc.oniceconnectionstatechange -> setError + stop on 'failed'          *)
(*   the setInterval callback     sample getStats() once a second          *)
(*                                                                         *)
(* JavaScript runs each handler to its next await without interleaving, so *)
(* one action is one synchronous segment of a handler.  The variables keep *)
(* the names of WHEPPlayer.tsx; the pusher's isStreaming, whipClientRef    *)
(* and lastBytesSentRef are isPlaying, whepClientRef and                   *)
(* lastBytesReceivedRef here.  The n-th invocation of start creates peer   *)
(* connection n, client n, timer n and (pusher) media stream n; 0 is null. *)
(***************************************************************************)
EXTENDS Integers, FiniteSets, Sequences, TLC

\* Number of start invocations explored.
MaxStarts == 2

Ids == 1..MaxStarts

Modes == {"view", "publish"}

\* The URL input when start is clicked: empty or not (useState url, set by the
\* input's onChange at any time).
Urls == {"", "u"}

\* setError arguments: null, the thrown 'Please enter a ... URL', a
\* getUserMedia rejection, a view()/publish() rejection, 'Connection
\* failed. ...' of the ICE callback, and a rejection of the client's stop().
ErrorValues == {"null", "config", "media", "negotiation", "ice", "teardown"}

VARIABLES
  mode,                 \* which component is mounted
  isPlaying,            \* useState isPlaying / isStreaming
  error,                \* useState error
  videoStats,           \* useState videoStats: "empty" ({}) or "sampled"
  audioStats,           \* useState audioStats
  connectionStats,      \* useState connectionStats: "none" | "closed" | "failed" | "live"
  lastBytesReceivedRef, \* "zero" ({0,0,0}) or "sampled"
  whepClientRef,        \* client id or 0
  pcRef,                \* peer connection id or 0
  streamRef,            \* pusher: local media stream id or 0
  srcObject,            \* videoRef.current.srcObject: stream id or 0
  statsIntervalRef,     \* timer id or 0
  startPhase,           \* per start invocation: where it is suspended / how it ended
  pcIce,                \* per peer connection: "none" | "new" | "failed" | "closed"
  closeCalls,           \* per peer connection: number of pc.close() calls
  trackStops,           \* per local media stream: number of track.stop() passes
  clientStopCalls,      \* per client: number of stop() calls issued
  stopAwait,            \* per client: stop invocations suspended at await client.stop()
  liveTimers,           \* interval timers armed and not cleared
  ticks,                \* peer connections with a sampler tick suspended at getStats()
  started,              \* number of start invocations so far
  errorBy,              \* history: the attempt whose handler made the last setError
  stoppedDuring,        \* history: starts that were awaiting view/publish when a stop ran
  lastFailed,           \* history: the pc that last reported 'failed', 0 after a new start
  stopRun,              \* history: "done" when a stop has completed and no start segment
                        \* ran since, "inflight" while such a stop awaits, else "none"
  calls,                \* history: the calls the last handler segment made, in the
                        \* order of its statements; <<>> when it made none of them
  capabilities,         \* RTCRtpSender.getCapabilities(kind).codecs: the mime types
  selectedCodec,        \* videoCodec / audioCodec, the value of the codec <select>
  transceiver,          \* the transceiver of the track: whether it was added, whether
                        \* setCodecPreferences was called on it, and with which list
  now,                  \* Date.now() / 1000 at the last tick, in whole seconds
  bytesReceived,        \* bytesReceived of the inbound-rtp record of each kind
  lastBytes,            \* lastBytesReceivedRef.current with its numbers
  bitrate,              \* the bitrate of videoStats and of audioStats
  lastReport,           \* history: the kinds the last tick's report had a record for
  prevSample,           \* history: per kind, the preceding sample of this session
  samples,              \* history: ticks sampled in this session
  tickCount             \* history: ticks sampled in all

vars == <<mode, isPlaying, error, videoStats, audioStats, connectionStats,
          lastBytesReceivedRef, whepClientRef, pcRef, streamRef, srcObject,
          statsIntervalRef, startPhase, pcIce, closeCalls, trackStops,
          clientStopCalls, stopAwait, liveTimers, ticks, started, errorBy,
          stoppedDuring, lastFailed, stopRun, calls,
          capabilities, selectedCodec, transceiver,
          now, bytesReceived, lastBytes, bitrate, lastReport, prevSample, samples,
          tickCount>>

\* The state of the session lifecycle.
lifecycleVars == <<mode, isPlaying, error, videoStats, audioStats, connectionStats,
                   lastBytesReceivedRef, whepClientRef, pcRef, streamRef, srcObject,
                   statsIntervalRef, startPhase, pcIce, closeCalls, trackStops,
                   clientStopCalls, stopAwait, liveTimers, ticks, started, errorBy,
                   stoppedDuring, lastFailed, stopRun, calls>>

\* The state of the codec selection of one track.
codecVars == <<capabilities, selectedCodec, transceiver>>

\* The numbers of the statistics sampler.
samplerVars == <<now, bytesReceived, lastBytes, bitrate, lastReport, prevSample,
                 samples, tickCount>>

\* The state the session lifecycle does not touch.
otherVars == <<codecVars, samplerVars>>

\* Variables no synchronous part of stop writes.
stopKeeps == <<mode, whepClientRef, ticks, started>>

CallNames == {"setError", "clearInterval", "close", "trackStop", "clientStop"}

Phases == {"idle", "getUserMedia", "negotiate", "connected", "failed"}

TypeOK ==
  /\ mode \in Modes
  /\ isPlaying \in BOOLEAN
  /\ error \in ErrorValues
  /\ videoStats \in {"empty", "sampled"}
  /\ audioStats \in {"empty", "sampled"}
  /\ connectionStats \in {"none", "closed", "failed", "live"}
  /\ lastBytesReceivedRef \in {"zero", "sampled"}
  /\ whepClientRef \in 0..MaxStarts
  /\ pcRef \in 0..MaxStarts
  /\ streamRef \in 0..MaxStarts
  /\ srcObject \in 0..MaxStarts
  /\ statsIntervalRef \in 0..MaxStarts
  /\ startPhase \in [Ids -> Phases]
  /\ pcIce \in [Ids -> {"none", "new", "failed", "closed"}]
  /\ closeCalls \in [Ids -> Nat]
  /\ trackStops \in [Ids -> Nat]
  /\ clientStopCalls \in [Ids -> Nat]
  /\ stopAwait \in [Ids -> Nat]
  /\ liveTimers \subseteq Ids
  /\ ticks \subseteq Ids
  /\ started \in 0..MaxStarts
  /\ errorBy \in 0..MaxStarts
  /\ stoppedDuring \subseteq Ids
  /\ lastFailed \in 0..MaxStarts
  /\ stopRun \in {"none", "inflight", "done"}
  /\ calls \in Seq(CallNames) /\ Len(calls) <= 5

\* The session state after the component is mounted (the useState/useRef
\* initial values).
Mounted ==
  /\ mode \in Modes
  /\ isPlaying = FALSE
  /\ error = "null"
  /\ videoStats = "empty"
  /\ audioStats = "empty"
  /\ connectionStats = "none"
  /\ lastBytesReceivedRef = "zero"
  /\ whepClientRef = 0
  /\ pcRef = 0
  /\ streamRef = 0
  /\ srcObject = 0
  /\ statsIntervalRef = 0
  /\ startPhase = [s \in Ids |-> "idle"]
  /\ pcIce = [p \in Ids |-> "none"]
  /\ closeCalls = [p \in Ids |-> 0]
  /\ trackStops = [p \in Ids |-> 0]
  /\ clientStopCalls = [c \in Ids |-> 0]
  /\ stopAwait = [c \in Ids |-> 0]
  /\ liveTimers = {}
  /\ ticks = {}
  /\ started = 0
  /\ errorBy = 0
  /\ stoppedDuring = {}
  /\ lastFailed = 0
  /\ stopRun = "none"
  /\ calls = <<>>

\* Date.now() / 1000 when the component is mounted.
Epoch == 1700000000

Kinds == {"video", "audio"}

\* No codec selection in progress.
CodecIdle ==
  /\ capabilities = <<>>
  /\ selectedCodec = <<>>
  /\ transceiver = [added |-> FALSE, called |-> FALSE, codecs |-> <<>>]

\* The sampler before the first tick of a session: the byte baseline of
\* useRef({ video: 0, audio: 0, timestamp: 0 }), no bitrate shown.
SamplerIdle ==
  /\ now = Epoch
  /\ bytesReceived = [k \in Kinds |-> 0]
  /\ lastBytes = [video |-> 0, audio |-> 0, timestamp |-> 0]
  /\ bitrate = [k \in Kinds |-> 0]
  /\ lastReport = {}
  /\ prevSample = [k \in Kinds |-> [valid |-> FALSE, bytes |-> 0, time |-> 0]]
  /\ samples = 0
  /\ tickCount = 0

\* The state after the component is mounted; the codec selection is followed
\* in SpecCodec only, the sampler's numbers in SpecSampler only.
Init ==
  /\ Mounted
  /\ CodecIdle
  /\ SamplerIdle

\* Starts suspended at await view()/publish() in the startPhase function ph.
Negotiating(ph) == {s \in Ids : ph[s] = "negotiate"}

\* Number of stop invocations suspended at await client.stop() in aw.
RECURSIVE InFlight(_, _)
InFlight(aw, n) == IF n = 0 THEN 0 ELSE aw[n] + InFlight(aw, n - 1)

\* stopPlaying / stopStream up to its await: setIsPlaying(false), clearInterval,
\* reset of the statistics, pc.close() on pcRef.current, track.stop() on the
\* local stream, and the call of whepClientRef.current.stop().  ice is the
\* peer connections' state when stop runs, ph the starts' phases then.
\* On the player the tracks stopped are the remote ones of srcObject; only
\* the clearing of srcObject is kept of that.  The client library is outside
\* the repository: its stop() is a call that later resolves or rejects.
stopPlaying(ice, ph) ==
  /\ isPlaying' = FALSE
  /\ liveTimers' = IF statsIntervalRef # 0 THEN liveTimers \ {statsIntervalRef}
                                           ELSE liveTimers
  /\ statsIntervalRef' = 0
  /\ audioStats' = "empty"
  /\ videoStats' = "empty"
  /\ lastBytesReceivedRef' = "zero"
  /\ IF pcRef # 0
       THEN /\ connectionStats' = IF ice[pcRef] = "failed" THEN "failed" ELSE "closed"
            /\ pcIce' = [ice EXCEPT ![pcRef] = "closed"]
            /\ closeCalls' = [closeCalls EXCEPT ![pcRef] = @ + 1]
       ELSE /\ connectionStats' = connectionStats
            /\ pcIce' = ice
            /\ closeCalls' = closeCalls
  /\ pcRef' = 0
  /\ IF mode = "publish" /\ streamRef # 0
       THEN trackStops' = [trackStops EXCEPT ![streamRef] = @ + 1]
       ELSE trackStops' = trackStops
  /\ streamRef' = 0
  /\ srcObject' = 0
  /\ IF whepClientRef # 0
       THEN /\ clientStopCalls' = [clientStopCalls EXCEPT ![whepClientRef] = @ + 1]
            /\ stopAwait' = [stopAwait EXCEPT ![whepClientRef] = @ + 1]
            /\ stopRun' = "inflight"
       ELSE /\ clientStopCalls' = clientStopCalls
            /\ stopAwait' = stopAwait
            /\ stopRun' = IF InFlight(stopAwait, MaxStarts) = 0 THEN "done" ELSE "inflight"
  /\ stoppedDuring' = Negotiating(ph)

\* The calls a run of stopPlaying / stopStream makes up to its await, in the
\* order of the statements: clearInterval (145-148), pc.close() (165),
\* track.stop() of the local stream, client.stop() (176).
stopCalls ==
  (IF statsIntervalRef # 0 THEN <<"clearInterval">> ELSE <<>>)
    \o (IF pcRef # 0 THEN <<"close">> ELSE <<>>)
    \o (IF mode = "publish" /\ streamRef # 0 THEN <<"trackStop">> ELSE <<>>)
    \o (IF whepClientRef # 0 THEN <<"clientStop">> ELSE <<>>)

\* The button while it offers Stop (onClick = stopPlaying).
userStop ==
  /\ isPlaying
  /\ stopPlaying(pcIce, startPhase)
  /\ calls' = stopCalls
  /\ UNCHANGED <<error, errorBy, startPhase, lastFailed>>
  /\ UNCHANGED stopKeeps
  /\ UNCHANGED otherVars

\* The awaited client.stop() resolves: whepClientRef.current = null.
stopResolved(c) ==
  /\ stopAwait[c] > 0
  /\ stopAwait' = [stopAwait EXCEPT ![c] = @ - 1]
  /\ whepClientRef' = 0
  /\ calls' = <<>>
  /\ stopRun' = IF stopRun = "inflight" /\ InFlight(stopAwait', MaxStarts) = 0
                  THEN "done" ELSE stopRun
  /\ UNCHANGED <<mode, isPlaying, error, videoStats, audioStats, connectionStats,
                 lastBytesReceivedRef, pcRef, streamRef, srcObject, statsIntervalRef,
                 startPhase, pcIce, closeCalls, trackStops, clientStopCalls,
                 liveTimers, ticks, started, errorBy, stoppedDuring, lastFailed>>
  /\ UNCHANGED otherVars

\* A catch block that only logged the failure.
stopCatchSilent(c) ==
  /\ error' = error
  /\ errorBy' = errorBy
  /\ calls' = <<>>

\* What the catch block of stopPlaying does to the error state.
stopCatch(c) ==
  /\ error' = "teardown"
  /\ errorBy' = c
  /\ calls' = <<"setError">>

\* The awaited client.stop() rejects: the catch block runs, the reference stays.
stopRejected(c) ==
  /\ stopAwait[c] > 0
  /\ stopAwait' = [stopAwait EXCEPT ![c] = @ - 1]
  /\ stopCatch(c)
  /\ stopRun' = IF stopRun = "inflight" /\ InFlight(stopAwait', MaxStarts) = 0
                  THEN "done" ELSE stopRun
  /\ UNCHANGED <<mode, isPlaying, videoStats, audioStats, connectionStats,
                 lastBytesReceivedRef, whepClientRef, pcRef, streamRef, srcObject,
                 statsIntervalRef, startPhase, pcIce, closeCalls, trackStops,
                 clientStopCalls, liveTimers, ticks, started, stoppedDuring,
                 lastFailed>>
  /\ UNCHANGED otherVars

\* new RTCPeerConnection(); pcRef.current = pc; the transceivers and the
\* oniceconnectionstatechange handler are attached in the same segment.
createPc(s) ==
  /\ pcIce' = [pcIce EXCEPT ![s] = "new"]
  /\ pcRef' = s

\* The catch block of start: setError(message); await stop().
startCatch(s, message, ph) ==
  /\ error' = message
  /\ errorBy' = s
  /\ stopPlaying(pcIce, ph)
  /\ calls' = <<"setError">> \o stopCalls

\* The button while it offers Start, player: setError(null), the URL check,
\* then either the throw into the catch block or the segment up to
\* await whepClient.view().
startPlaying(url) ==
  /\ mode = "view"
  /\ ~isPlaying
  /\ started < MaxStarts
  /\ LET s == started + 1 IN
       /\ started' = s
       /\ lastFailed' = 0
       /\ IF url = ""
            THEN /\ startPhase' = [startPhase EXCEPT ![s] = "failed"]
                 /\ startCatch(s, "config", startPhase')
                 /\ UNCHANGED <<mode, whepClientRef, ticks>>
            ELSE /\ startPhase' = [startPhase EXCEPT ![s] = "negotiate"]
                 /\ error' = "null"
                 /\ errorBy' = 0
                 /\ createPc(s)
                 /\ stopRun' = "none"
                 /\ calls' = <<>>
                 /\ UNCHANGED <<mode, isPlaying, videoStats, audioStats,
                                connectionStats, lastBytesReceivedRef, whepClientRef,
                                streamRef, srcObject, statsIntervalRef, closeCalls,
                                trackStops, clientStopCalls, stopAwait, liveTimers,
                                ticks, stoppedDuring>>
  /\ UNCHANGED otherVars

\* The button while it offers Start, pusher: setError(null), the URL check,
\* then either the throw or the segment up to await getUserMedia().
startStream(url) ==
  /\ mode = "publish"
  /\ ~isPlaying
  /\ started < MaxStarts
  /\ LET s == started + 1 IN
       /\ started' = s
       /\ lastFailed' = 0
       /\ IF url = ""
            THEN /\ startPhase' = [startPhase EXCEPT ![s] = "failed"]
                 /\ startCatch(s, "config", startPhase')
                 /\ UNCHANGED <<mode, whepClientRef, ticks>>
            ELSE /\ startPhase' = [startPhase EXCEPT ![s] = "getUserMedia"]
                 /\ error' = "null"
                 /\ errorBy' = 0
                 /\ stopRun' = "none"
                 /\ calls' = <<>>
                 /\ UNCHANGED <<mode, isPlaying, videoStats, audioStats,
                                connectionStats, lastBytesReceivedRef, whepClientRef,
                                pcRef, streamRef, srcObject, statsIntervalRef, pcIce,
                                closeCalls, trackStops, clientStopCalls, stopAwait,
                                liveTimers, ticks, stoppedDuring>>
  /\ UNCHANGED otherVars

\* getUserMedia resolves: streamRef.current and srcObject take the stream,
\* the peer connection is created, and start suspends at await publish().
\* (The awaits of setCodecPreferences in between resume in the same
\* microtask checkpoint; no other handler of the component can interleave.)
getUserMediaResolved(s) ==
  /\ startPhase[s] = "getUserMedia"
  /\ startPhase' = [startPhase EXCEPT ![s] = "negotiate"]
  /\ streamRef' = s
  /\ srcObject' = s
  /\ createPc(s)
  /\ stopRun' = "none"
  /\ calls' = <<>>
  /\ UNCHANGED <<mode, isPlaying, error, videoStats, audioStats, connectionStats,
                 lastBytesReceivedRef, whepClientRef, statsIntervalRef, closeCalls,
                 trackStops, clientStopCalls, stopAwait, liveTimers, ticks, started,
                 errorBy, stoppedDuring, lastFailed>>
  /\ UNCHANGED otherVars

\* A start that created its peer connection before awaiting getUserMedia.
getUserMediaRejectedLate(s) ==
  /\ startPhase[s] = "getUserMedia"
  /\ startPhase' = [startPhase EXCEPT ![s] = "failed"]
  /\ error' = "media"
  /\ errorBy' = s
  /\ stopPlaying([pcIce EXCEPT ![s] = "new"], startPhase')
  /\ calls' = <<"setError">> \o stopCalls
  /\ UNCHANGED <<mode, whepClientRef, ticks, started, lastFailed>>
  /\ UNCHANGED otherVars

\* getUserMedia rejects: the catch block runs before any pc is created.
getUserMediaRejected(s) ==
  /\ startPhase[s] = "getUserMedia"
  /\ startPhase' = [startPhase EXCEPT ![s] = "failed"]
  /\ startCatch(s, "media", startPhase')
  /\ UNCHANGED <<mode, whepClientRef, ticks, started, lastFailed>>
  /\ UNCHANGED otherVars

\* What start does once view()/publish() has resolved: store the client,
\* setIsPlaying(true), arm the stats interval.
afterView(s) ==
  /\ whepClientRef' = s
  /\ isPlaying' = TRUE
  /\ statsIntervalRef' = s
  /\ liveTimers' = liveTimers \cup {s}

\* await whepClient.view() / whipClient.publish() resolves.
viewResolved(s) ==
  /\ startPhase[s] = "negotiate"
  /\ startPhase' = [startPhase EXCEPT ![s] = "connected"]
  /\ afterView(s)
  /\ stoppedDuring' = stoppedDuring \ {s}
  /\ stopRun' = "none"
  /\ calls' = <<>>
  /\ UNCHANGED <<mode, error, videoStats, audioStats, connectionStats,
                 lastBytesReceivedRef, pcRef, streamRef, srcObject, pcIce, closeCalls,
                 trackStops, clientStopCalls, stopAwait, ticks, started, errorBy,
                 lastFailed>>
  /\ UNCHANGED otherVars

\* await whepClient.view() / whipClient.publish() rejects: the catch block.
viewRejected(s) ==
  /\ startPhase[s] = "negotiate"
  /\ startPhase' = [startPhase EXCEPT ![s] = "failed"]
  /\ startCatch(s, "negotiation", startPhase')
  /\ UNCHANGED <<mode, whepClientRef, ticks, started, lastFailed>>
  /\ UNCHANGED otherVars

\* pc.oniceconnectionstatechange with iceConnectionState 'failed':
\* setError('Connection failed. ...'); stopPlaying().  A peer connection
\* reports 'failed' at most once, and never after close().
oniceconnectionstatechange(p) ==
  /\ pcIce[p] = "new"
  /\ error' = "ice"
  /\ errorBy' = p
  /\ lastFailed' = p
  /\ stopPlaying([pcIce EXCEPT ![p] = "failed"], startPhase)
  /\ calls' = <<"setError">> \o stopCalls
  /\ UNCHANGED startPhase
  /\ UNCHANGED stopKeeps
  /\ UNCHANGED otherVars

\* pc.ontrack on the player: the first track creates the MediaStream of the
\* video element, later ones are added to it.
ontrack(p) ==
  /\ mode = "view"
  /\ pcIce[p] = "new"
  /\ srcObject = 0
  /\ srcObject' = p
  /\ calls' = <<>>
  /\ UNCHANGED <<mode, isPlaying, error, videoStats, audioStats, connectionStats,
                 lastBytesReceivedRef, whepClientRef, pcRef, streamRef,
                 statsIntervalRef, startPhase, pcIce, closeCalls, trackStops,
                 clientStopCalls, stopAwait, liveTimers, ticks, started, errorBy,
                 stoppedDuring, lastFailed, stopRun>>
  /\ UNCHANGED otherVars

\* An interval callback that samples the peer connection its start created,
\* without reading pcRef.current.
tickBeginClosurePc(t) ==
  /\ t \in liveTimers
  /\ t \notin ticks
  /\ ticks' = ticks \cup {t}
  /\ calls' = <<>>
  /\ UNCHANGED <<mode, isPlaying, error, videoStats, audioStats, connectionStats,
                 lastBytesReceivedRef, whepClientRef, pcRef, streamRef, srcObject,
                 statsIntervalRef, startPhase, pcIce, closeCalls, trackStops,
                 clientStopCalls, stopAwait, liveTimers, started, errorBy,
                 stoppedDuring, lastFailed, stopRun>>
  /\ UNCHANGED otherVars

\* The interval callback up to await pc.getStats(); with pcRef.current null it
\* returns at once and changes nothing.  ticks is a set: a second tick on a
\* peer connection whose getStats() is still pending is not told apart.
tickBegin(t) ==
  /\ t \in liveTimers
  /\ pcRef # 0
  /\ pcRef \notin ticks
  /\ ticks' = ticks \cup {pcRef}
  /\ calls' = <<>>
  /\ UNCHANGED <<mode, isPlaying, error, videoStats, audioStats, connectionStats,
                 lastBytesReceivedRef, whepClientRef, pcRef, streamRef, srcObject,
                 statsIntervalRef, startPhase, pcIce, closeCalls, trackStops,
                 clientStopCalls, stopAwait, liveTimers, started, errorBy,
                 stoppedDuring, lastFailed, stopRun>>
  /\ UNCHANGED otherVars

\* getStats() of pc p resolves: the callback writes the statistics of the
\* inbound-rtp / outbound-rtp records of the report, the byte baseline with
\* its timestamp, and the connection state read from p.
tickEnd(p) ==
  /\ p \in ticks
  /\ ticks' = ticks \ {p}
  /\ calls' = <<>>
  /\ videoStats' = "sampled"
  /\ audioStats' = "sampled"
  /\ lastBytesReceivedRef' = "sampled"
  /\ connectionStats' = CASE pcIce[p] = "closed" -> "closed"
                          [] pcIce[p] = "failed" -> "failed"
                          [] OTHER -> "live"
  /\ UNCHANGED <<mode, isPlaying, error, whepClientRef, pcRef, streamRef,
                 srcObject, statsIntervalRef, startPhase, pcIce, closeCalls,
                 trackStops, clientStopCalls, stopAwait, liveTimers, started,
                 errorBy, stoppedDuring, lastFailed, stopRun>>
  /\ UNCHANGED otherVars

Next ==
  \/ \E url \in Urls : startPlaying(url)
  \/ \E url \in Urls : startStream(url)
  \/ \E s \in Ids : getUserMediaResolved(s)
  \/ \E s \in Ids : getUserMediaRejected(s)
  \/ \E s \in Ids : viewResolved(s)
  \/ \E s \in Ids : viewRejected(s)
  \/ userStop
  \/ \E c \in Ids : stopResolved(c)
  \/ \E c \in Ids : stopRejected(c)
  \/ \E p \in Ids : oniceconnectionstatechange(p)
  \/ \E p \in Ids : ontrack(p)
  \/ \E t \in Ids : tickBegin(t)
  \/ \E p \in Ids : tickEnd(p)

Spec == Init /\ [][Next]_vars

(***************************************************************************)
(* Codec preferences of a published track (startStream, the loop over the  *)
(* tracks).  A mime type is the sequence of its characters; a capability   *)
(* is told from the others by its place in the list, as the objects of     *)
(* capabilities.codecs are by identity.                                    *)
(***************************************************************************)

MaxCodecs == 3

UpperCase == <<"A", "B", "C", "D", "E", "F", "G", "H", "I", "J", "K", "L", "M",
               "N", "O", "P", "Q", "R", "S", "T", "U", "V", "W", "X", "Y", "Z">>

LowerCase == <<"a", "b", "c", "d", "e", "f", "g", "h", "i", "j", "k", "l", "m",
               "n", "o", "p", "q", "r", "s", "t", "u", "v", "w", "x", "y", "z">>

\* String.prototype.toLowerCase.
toLowerCase(s) ==
  [i \in 1..Len(s) |->
     IF \E k \in 1..26 : UpperCase[k] = s[i]
       THEN LowerCase[CHOOSE k \in 1..26 : UpperCase[k] = s[i]]
       ELSE s[i]]

\* String.prototype.includes.
includes(s, sub) ==
  \E k \in 0..(Len(s) - Len(sub)) : SubSeq(s, k + 1, k + Len(sub)) = sub

\* 'auto', the value of the first option of the codec <select>.
Auto == <<"a", "u", "t", "o">>

\* The values the codec <select> offers: 'auto' and lower-cased codec names;
\* av1 stands for a codec the capabilities at start do not list.
CodecOptions ==
  {Auto, <<"v", "p", "8">>, <<"h", "2", "6", "4">>, <<"a", "v", "1">>}

\* Mime types of capabilities: video/VP8, video/VP9, video/H264, video/rtx.
MimeTypes ==
  {<<"v", "i", "d", "e", "o", "/", "V", "P", "8">>,
   <<"v", "i", "d", "e", "o", "/", "V", "P", "9">>,
   <<"v", "i", "d", "e", "o", "/", "H", "2", "6", "4">>,
   <<"v", "i", "d", "e", "o", "/", "r", "t", "x">>}

\* The capability lists of at most MaxCodecs entries; the same mime type may
\* occur more than once (H264 with several profiles).
CapabilityLists == UNION {[1..n -> MimeTypes] : n \in 0..MaxCodecs}

\* A reordering that kept only the matching codecs.
codecPreferencesOnlyMatching(caps, selected) ==
  IF selected = Auto
    THEN <<>>
    ELSE SelectSeq([i \in 1..Len(caps) |-> i],
                   LAMBDA i : includes(toLowerCase(caps[i]), toLowerCase(selected)))

\* The list codecs of lines 192-209, as places in capabilities.codecs: empty
\* for 'auto' and when nothing matches, else the matching codecs followed by
\* the codecs that are not among the matching ones.
codecPreferences(caps, selected) ==
  IF selected = Auto
    THEN <<>>
    ELSE LET all == [i \in 1..Len(caps) |-> i]
             matchingCodecs ==
               SelectSeq(all, LAMBDA i :
                 includes(toLowerCase(caps[i]), toLowerCase(selected)))
         IN IF Len(matchingCodecs) > 0
              THEN matchingCodecs
                     \o SelectSeq(all, LAMBDA i :
                          \A j \in 1..Len(matchingCodecs) : matchingCodecs[j] # i)
              ELSE <<>>

\* onChange of the codec <select> while it is enabled.
setVideoCodec(c) ==
  /\ ~transceiver.added
  /\ selectedCodec # c
  /\ selectedCodec' = c
  /\ UNCHANGED <<capabilities, transceiver>>
  /\ UNCHANGED <<lifecycleVars, samplerVars>>

\* One pass of the loop over the tracks: pc.addTransceiver(track, ...) and,
\* when codecs is not empty, transceiver.setCodecPreferences(codecs).
addTransceiver ==
  /\ ~transceiver.added
  /\ LET codecs == codecPreferences(capabilities, selectedCodec) IN
       transceiver' = [added |-> TRUE, called |-> Len(codecs) > 0, codecs |-> codecs]
  /\ UNCHANGED <<capabilities, selectedCodec>>
  /\ UNCHANGED <<lifecycleVars, samplerVars>>

\* The pusher as mounted, with the capabilities the browser reports.
InitCodec ==
  /\ Mounted
  /\ mode = "publish"
  /\ capabilities \in CapabilityLists
  /\ selectedCodec = Auto
  /\ transceiver = [added |-> FALSE, called |-> FALSE, codecs |-> <<>>]
  /\ SamplerIdle

NextCodec ==
  \/ \E c \in CodecOptions : setVideoCodec(c)
  \/ addTransceiver

SpecCodec == InitCodec /\ [][NextCodec]_vars

(***************************************************************************)
(* The bitrate computation of the stats interval callback, with its        *)
(* numbers.  Time is Date.now() / 1000 at whole seconds; byte counters     *)
(* are those of the session's peer connection.                             *)
(***************************************************************************)

MaxTicks == 3

MaxBytes == 250000000

\* By how much Date.now() / 1000 differs between two ticks: the period of
\* the interval, a tick in the same second, a clock set back.
ClockSteps == {-1, 0, 1}

\* Bytes received between two ticks.
Increments == {1000, 25000, 110000000}

\* Math.round(num / den) for den > 0: the nearest integer, halves upwards.
Round(num, den) ==
  LET q == num \div den
      r == num % den
  IN IF r >= den - r THEN q + 1 ELSE q

\* The value of newVideoStats.bitrate / newAudioStats.bitrate (lines 98-100,
\* 119-121) for the byte counter bytes and the baseline counter last.
Bitrate(interval, bytes, last) ==
  IF interval > 0 THEN Round((bytes - last) * 8, interval) ELSE 0

\* The interval callback from the resolution of getStats() on: Date.now()
\* has moved by d, each counter by inc, and the report holds an inbound-rtp
\* record for the kinds of report.
sample(d, inc, report) ==
  /\ tickCount < MaxTicks
  /\ \A k \in Kinds : bytesReceived[k] + inc[k] <= MaxBytes
  /\ now' = now + d
  /\ bytesReceived' = [k \in Kinds |-> bytesReceived[k] + inc[k]]
  /\ LET interval == now' - lastBytes.timestamp IN
       /\ bitrate' = [k \in Kinds |->
                        IF k \in report
                          THEN Bitrate(interval, bytesReceived'[k], lastBytes[k])
                          ELSE bitrate[k]]
       /\ lastBytes' = [video |-> IF "video" \in report THEN bytesReceived'["video"]
                                                        ELSE lastBytes.video,
                        audio |-> IF "audio" \in report THEN bytesReceived'["audio"]
                                                        ELSE lastBytes.audio,
                        timestamp |-> now']
  /\ lastReport' = report
  /\ prevSample' = [k \in Kinds |->
                      IF k \in report
                        THEN [valid |-> TRUE, bytes |-> bytesReceived'[k], time |-> now']
                        ELSE prevSample[k]]
  /\ samples' = samples + 1
  /\ tickCount' = tickCount + 1
  /\ UNCHANGED <<lifecycleVars, codecVars>>

\* Stop followed by a start that connects: the statistics and the byte
\* baseline are reset (lines 149-151) and the new peer connection counts
\* its bytes from 0.
newSession ==
  /\ samples > 0
  /\ bytesReceived' = [k \in Kinds |-> 0]
  /\ lastBytes' = [video |-> 0, audio |-> 0, timestamp |-> 0]
  /\ bitrate' = [k \in Kinds |-> 0]
  /\ lastReport' = {}
  /\ prevSample' = [k \in Kinds |-> [valid |-> FALSE, bytes |-> 0, time |-> 0]]
  /\ samples' = 0
  /\ UNCHANGED <<now, tickCount>>
  /\ UNCHANGED <<lifecycleVars, codecVars>>

\* The sampler before the first tick of a session; which handlers run when
\* is followed in Spec, and the session state is held at its mounted values.
InitSampler ==
  /\ Mounted
  /\ CodecIdle
  /\ SamplerIdle

NextSampler ==
  \/ \E d \in ClockSteps, inc \in [Kinds -> Increments], report \in SUBSET Kinds :
       sample(d, inc, report)
  \/ newSession

SpecSampler == InitSampler /\ [][NextSampler]_vars

(***************************************************************************)
(* Properties                                                              *)
(***************************************************************************)

\* Peer connections created and not closed.
OpenPcs == {p \in Ids : pcIce[p] \in {"new", "failed"}}

\* Starts suspended at one of their awaits.
PendingStarts == {s \in Ids : startPhase[s] \in {"getUserMedia", "negotiate"}}

\* Nothing is running or pending: the button offers Start and no handler is
\* suspended.
Quiescent ==
  /\ started > 0
  /\ ~isPlaying
  /\ PendingStarts = {}
  /\ InFlight(stopAwait, MaxStarts) = 0

\* A step in which stop is called without a start having created anything:
\* the Stop button, the ICE callback, or the catch block of a start that
\* threw at the URL check.
StopCalled ==
  \/ userStop
  \/ \E p \in Ids : oniceconnectionstatechange(p)
  \/ startPlaying("")
  \/ startStream("")

\* C1: when a stop ran while a start was awaiting view()/publish(), the later
\* completion of that call does not bring the session back: isPlaying is
\* false, the start's client is not stored and its stats timer is not armed.
C1_NoLateResurrection ==
  [][\A s \in Ids :
       (s \in stoppedDuring /\ startPhase[s] = "negotiate"
          /\ startPhase'[s] # "negotiate")
       => (~isPlaying' /\ whepClientRef' # s /\ s \notin liveTimers')]_vars

\* C2: once the ICE callback has reported 'failed', and until a new start is
\* invoked, the session is Closed (isPlaying false, the failed peer connection
\* closed, pcRef null) and no stats timer is armed.
C2_FailedStaysClosed ==
  lastFailed # 0 =>
    /\ ~isPlaying
    /\ pcIce[lastFailed] = "closed"
    /\ pcRef = 0
    /\ liveTimers = {}

\* C3: calling stop after a stop has completed, with no start in between,
\* closes no peer connection, calls no client stop, stops no track, cancels
\* no timer and suspends on nothing that could fail.
C3_StopIdempotent ==
  [][(stopRun = "done" /\ StopCalled)
       => /\ closeCalls' = closeCalls
          /\ clientStopCalls' = clientStopCalls
          /\ trackStops' = trackStops
          /\ liveTimers' = liveTimers
          /\ stopAwait' = stopAwait]_vars

\* C4: while a stop is suspended at the awaited stop of a client, no further
\* stop is issued on that client, and no peer connection is closed twice.
C4_OverlappingStopsConverge ==
  [][/\ \A c \in Ids : stopAwait[c] > 0 => clientStopCalls'[c] = clientStopCalls[c]
     /\ \A p \in Ids : closeCalls'[p] <= 1]_vars

\* C5: a start that has failed has left no live peer connection: the one it
\* created, if any, has been closed when its catch block has run.
C5_FailedStartClosesItsPc ==
  \A s \in Ids : startPhase[s] = "failed" => pcIce[s] \in {"none", "closed"}

\* C6: at most one peer connection is created and not yet closed.
C6_AtMostOneOpenPc == Cardinality(OpenPcs) <= 1

\* C7: no peer connection is closed twice, no local stream has its tracks
\* stopped twice, and when everything has been stopped no peer connection
\* and no local stream is left unreleased.
C7_ReleasedExactlyOnce ==
  /\ \A p \in Ids : closeCalls[p] <= 1 /\ trackStops[p] <= 1
  /\ Quiescent =>
       /\ OpenPcs = {}
       /\ mode = "publish" =>
            \A s \in Ids : pcIce[s] # "none" => trackStops[s] = 1

\* C8: while isPlaying is true, pcRef is non-null and whepClientRef holds the
\* client of the session pcRef belongs to.
C8_ConnectedHasResource ==
  isPlaying => (pcRef # 0 /\ whepClientRef = pcRef)

C10_ErrorOfLatestAttempt ==
  error # "null" => errorBy = started

\* C11: a start that fails at the URL check or at getUserMedia surfaces its
\* error and creates no peer connection, then or later.
C11_EarlyFailureCreatesNoPc ==
  [][\A s \in Ids :
       /\ (startPhase[s] \in {"idle", "getUserMedia"} /\ startPhase'[s] = "failed")
            => (error' \in {"config", "media"} /\ errorBy' = s /\ pcIce'[s] = "none")
       /\ (startPhase[s] = "failed" /\ pcIce[s] = "none") => pcIce'[s] = "none"]_vars

\* C11 witness: a pusher start whose getUserMedia was rejected shows its error
\* and has no peer connection.
C11_Witness ==
  /\ mode = "publish"
  /\ error = "media"
  /\ \E s \in Ids : errorBy = s /\ startPhase[s] = "failed" /\ pcIce[s] = "none"

\* C16: in every reachable state a stats interval timer is live if and only
\* if isPlaying / isStreaming is true.
C16_TimerIffPlaying == (liveTimers # {}) <=> isPlaying

\* C19: when a peer connection that pcRef no longer references reports
\* 'failed', the peer connection, the timer and the client of the session
\* pcRef references are left untouched.
C19_StaleIceFailureIsLocal ==
  [][\A p \in Ids :
       (oniceconnectionstatechange(p) /\ pcRef \notin {0, p})
         => /\ pcRef' = pcRef
            /\ pcIce'[pcRef] = pcIce[pcRef]
            /\ liveTimers' = liveTimers
            /\ statsIntervalRef' = statsIntervalRef
            /\ clientStopCalls' = clientStopCalls]_vars

\* C20: the completion of a stop that awaited the stop of client c never
\* clears or replaces the reference to another client stored by a newer start.
C20_StaleStopKeepsNewerClient ==
  [][\A c \in Ids :
       (stopResolved(c) /\ whepClientRef \notin {0, c})
         => whepClientRef' = whepClientRef]_vars

\* a occurs in the call sequence seq.
Has(a, seq) == \E i \in 1..Len(seq) : seq[i] = a

\* Every occurrence of a in seq precedes every occurrence of b.
Before(a, b, seq) ==
  \A i, j \in 1..Len(seq) : (seq[i] = a /\ seq[j] = b) => i < j

\* C14: in every stop the client's stop (HTTP DELETE) is issued before the
\* peer connection is closed, and the peer connection stop found in pcRef is
\* closed whether or not the DELETE succeeds.
C14_DeleteBeforeClose ==
  /\ Before("clientStop", "close", calls)
  /\ \A p \in Ids : closeCalls[p] > 0 => pcIce[p] = "closed"

\* C15: when view()/publish() of a start has failed and its catch block has
\* run, the peer connection that start created is closed and pcRef no longer
\* holds it, and the close preceded the setError of the failure.
C15_TeardownBeforeError ==
  \A s \in Ids :
    (Has("setError", calls) /\ errorBy = s /\ error = "negotiation")
      => /\ pcIce[s] = "closed"
         /\ pcRef # s
         /\ Before("close", "setError", calls)

\* C17: a stop cancels the timer of statsIntervalRef before it closes the
\* peer connection, a stop that closes a peer connection leaves that timer
\* dead and pcRef empty, and no tick begins getStats() on a closed peer
\* connection.
C17_TimerCancelledBeforeClose ==
  [][/\ Before("clearInterval", "close", calls')
     /\ Has("close", calls')
          => /\ statsIntervalRef' = 0
             /\ pcRef' = 0
             /\ statsIntervalRef # 0 => statsIntervalRef \notin liveTimers'
     /\ \A p \in ticks' \ ticks : pcIce[p] # "closed" /\ pcIce'[p] # "closed"]_vars

\* C17 witness: a stop has just cancelled the timer and then closed the peer
\* connection while a tick begun earlier still awaits getStats() on it.
C17_Witness ==
  /\ Has("clearInterval", calls)
  /\ Has("close", calls)
  /\ \E p \in ticks : pcIce[p] = "closed"

\* Capability i matches the selected codec.
IsMatch(i) == includes(toLowerCase(capabilities[i]), toLowerCase(selectedCodec))

\* C18: when a codec other than Auto is selected and a capability matches
\* it, the list passed to setCodecPreferences is a permutation of the
\* capability list with every matching codec before every other one and
\* the original order kept inside each group; with Auto or without a match
\* setCodecPreferences is not called.
C18_CodecPreferenceOrder ==
  transceiver.added =>
    LET n == Len(capabilities)
        c == transceiver.codecs
    IN IF selectedCodec # Auto /\ \E i \in 1..n : IsMatch(i)
         THEN /\ transceiver.called
              /\ Len(c) = n
              /\ \A i \in 1..n : \E k \in 1..n : c[k] = i
              /\ \A a, b \in 1..n :
                   a < b => /\ IsMatch(c[b]) => IsMatch(c[a])
                            /\ (IsMatch(c[a]) <=> IsMatch(c[b])) => c[a] < c[b]
         ELSE ~transceiver.called

\* C18 witness: setCodecPreferences was called with a list that moved a
\* matching codec in front of one that does not match.
C18_Witness ==
  /\ transceiver.called
  /\ Len(transceiver.codecs) = MaxCodecs
  /\ transceiver.codecs[1] # 1
  /\ ~IsMatch(1)

\* C12: on every tick, the bitrate reported for a kind that has a preceding
\* sample in the session is round((bytes - previous bytes) * 8 / elapsed
\* seconds), previous bytes and elapsed seconds being taken from the
\* preceding sample of that kind; stated for ticks at which time has
\* advanced since that sample and since the preceding tick.
C12_BitrateFromPrecedingSample ==
  [][tickCount' = tickCount + 1
       => \A k \in lastReport' :
            (prevSample[k].valid /\ now' - prevSample[k].time > 0
               /\ now' - lastBytes.timestamp > 0)
              => bitrate'[k] = Round((bytesReceived'[k] - prevSample[k].bytes) * 8,
                                     now' - prevSample[k].time)]_vars

\* C13: a tick reports bitrate 0 when the time elapsed since the preceding
\* tick is not positive, and on the first tick of a session.
C13_ZeroOnFirstSampleOrNoElapsedTime ==
  [][tickCount' = tickCount + 1
       => \A k \in lastReport' :
            (samples = 0 \/ now' - lastBytes.timestamp <= 0) => bitrate'[k] = 0]_vars

\* C21: a tick that was suspended at getStats() on peer connection p when a
\* stop closed p and reset the statistics writes, on resuming, neither the
\* displayed statistics, nor the connection state, nor the byte baseline.
C21_StaleTickWritesNothing ==
  [][\A p \in Ids :
       (tickEnd(p) /\ pcIce[p] = "closed")
         => /\ videoStats' = videoStats
            /\ audioStats' = audioStats
            /\ connectionStats' = connectionStats
            /\ lastBytesReceivedRef' = lastBytesReceivedRef]_vars

=============================================================================
